---- MODULE Spec2Model ----
(***************************************************************************)
(* Model of conseval/scorer.py: scorer resolution by dotted name           *)
(* (get_scorer_cls, get_scorer), the Scorer base class with its parameter  *)
(* schema, and the common scoring pipeline Scorer.score.                   *)
(*                                                                         *)
(* Python strings are sequences of one-character strings.  A call's        *)
(* outcome is a record: [status |-> "return", value |-> v] or              *)
(* [status |-> "raise", error |-> e].                                      *)
(***************************************************************************)
EXTENDS Integers, Sequences, FiniteSets, TLC

VARIABLES
    ret,      \* the last call the caller made: its arguments and its outcome
    scorer,   \* the Scorer instance the caller holds, or None
    seen      \* history: per alignment, the first output score() returned
              \* for `scorer`, else None

vars == <<ret, scorer, seen>>

----------------------------------------------------------------------------
(* Bounds of the model *)

\* longest dotted name enumerated
MaxLen == 3
\* largest window_size override
MaxWin == 2
\* longest alignment (number of columns)
MaxCols == 2

----------------------------------------------------------------------------
(* Python values *)

None == [kind |-> "None"]

Return(v) == [status |-> "return", value |-> v]

Raise(e) == [status |-> "raise", error |-> e]

----------------------------------------------------------------------------
(* Python str operations used by scorer.py *)

Lowers == <<"a","b","c","d","e","f","g","h","i","j","k","l","m",
            "n","o","p","q","r","s","t","u","v","w","x","y","z">>

Uppers == <<"A","B","C","D","E","F","G","H","I","J","K","L","M",
            "N","O","P","Q","R","S","T","U","V","W","X","Y","Z">>

\* str.upper() of one character: non-letters are unchanged
upper(c) ==
    IF \E i \in 1..Len(Lowers) : Lowers[i] = c
    THEN Uppers[CHOOSE i \in 1..Len(Lowers) : Lowers[i] = c]
    ELSE c

\* str.lower() of one character
lower(c) ==
    IF \E i \in 1..Len(Uppers) : Uppers[i] = c
    THEN Lowers[CHOOSE i \in 1..Len(Uppers) : Uppers[i] = c]
    ELSE c

\* str.capitalize(): first character upper-cased, the rest lower-cased
capitalize(s) ==
    [i \in 1..Len(s) |-> IF i = 1 THEN upper(s[i]) ELSE lower(s[i])]

\* str.split(sep): every occurrence of sep separates, empty pieces are kept
RECURSIVE split(_, _)
split(s, sep) ==
    IF \E i \in 1..Len(s) : s[i] = sep
    THEN LET i == CHOOSE k \in 1..Len(s) :
                    s[k] = sep /\ \A j \in 1..(k-1) : s[j] # sep
         IN  <<SubSeq(s, 1, i-1)>> \o split(SubSeq(s, i+1, Len(s)), sep)
    ELSE <<s>>

\* sep.join(parts)
RECURSIVE join(_, _)
join(sep, parts) ==
    IF parts = <<>> THEN <<>>
    ELSE IF Len(parts) = 1 THEN parts[1]
    ELSE parts[1] \o sep \o join(sep, Tail(parts))

\* "".join(s.capitalize() for s in segment.split('_'))
CapWords(segment) ==
    LET pieces == split(segment, "_")
    IN  join(<<>>, [i \in 1..Len(pieces) |-> capitalize(pieces[i])])

Str_scorers == <<"s","c","o","r","e","r","s">>

\* 'scorers.'+name
ModuleName(name) == Str_scorers \o <<".">> \o name

\* variant of ScorerClsname deriving the class name from the first segment
FirstSegmentClsname(name) == CapWords(split(name, ".")[1])

\* "".join(s.capitalize() for s in name.split('.')[-1].split('_'))
ScorerClsname(name) ==
    LET segments == split(name, ".")
    IN  CapWords(segments[Len(segments)])

----------------------------------------------------------------------------
(* The scorers package as the import system presents it *)

\* __import__ can only locate a dotted path whose segments are all non-empty
Importable(name) ==
    LET segments == split(name, ".")
    IN  \A i \in 1..Len(segments) : segments[i] # <<>>

\* class names a module scorers.<name> may define
ClassCandidates(name) ==
    LET segments == split(name, ".")
    IN  ({CapWords(segments[i]) : i \in 1..Len(segments)}
            \cup {segments[Len(segments)]}) \ {<<>>}

NotFound == [found |-> FALSE]

\* what `import scorers.<name>` may find: nothing, or a module with an
\* IS_BASE_SCORER attribute (absent, falsy or truthy), the classes it
\* defines, and whether those classes override _score
Modules(name) ==
    {NotFound} \cup
    IF Importable(name)
    THEN {[found |-> TRUE, marker |-> m, defines |-> d, has_score |-> h] :
            m \in {"absent", "false", "true"},
            d \in {{}} \cup {{c} : c \in ClassCandidates(name)},
            h \in BOOLEAN}
    ELSE {}

----------------------------------------------------------------------------
(* get_scorer_cls *)

\* ImportError("%s: %s is not a valid scorer." % (e, name))
NotAValidScorer(e, name) ==
    [type |-> "ImportError", text |-> "is not a valid scorer",
     cause |-> e, name |-> name]

Class(module, clsname, has_score) ==
    [kind |-> "class", module |-> module, clsname |-> clsname,
     has_score |-> has_score]

\* variant of get_scorer_cls that answers a missing class with None
get_scorer_cls_lenient(name, mod) ==
    IF ~mod.found
    THEN Raise(NotAValidScorer("ImportError", name))
    ELSE IF mod.marker = "true"
    THEN Return(None)
    ELSE IF ScorerClsname(name) \in mod.defines
    THEN Return(Class(ModuleName(name), ScorerClsname(name), mod.has_score))
    ELSE Return(None)

\* lines 29-38; `mod` is what __import__('scorers.'+name) finds
get_scorer_cls(name, mod) ==
    IF ~mod.found
    THEN Raise(NotAValidScorer("ImportError", name))
    ELSE IF mod.marker = "true"
    THEN Return(None)
    ELSE IF ScorerClsname(name) \in mod.defines
    THEN Return(Class(ModuleName(name), ScorerClsname(name), mod.has_score))
    ELSE Raise(NotAValidScorer("AttributeError", name))

----------------------------------------------------------------------------
(* conseval.params: ParamDef, Params, WithParams *)

\* variant of ScorerParams with another window_size default
ScorerParams_otherdefault ==
    << [name |-> "window_size",   default |-> 0,     type |-> "int"],
       [name |-> "window_lambda", default |-> 5,     type |-> "float"],
       [name |-> "normalize",     default |-> FALSE, type |-> "bool"] >>

\* Scorer.params.  window_lambda is held in tenths (5 is .5).
ScorerParams ==
    << [name |-> "window_size",   default |-> 2,     type |-> "int"],
       [name |-> "window_lambda", default |-> 5,     type |-> "float"],
       [name |-> "normalize",     default |-> FALSE, type |-> "bool"] >>

\* the check functions of Scorer.params: lambda x: x>=0, lambda x: 0<=x<=1,
\* and none for normalize
Validator(pname, x) ==
    CASE pname = "window_size"   -> x >= 0
      [] pname = "window_lambda" -> 0 <= x /\ x <= 10
      [] OTHER                   -> TRUE

ParamError(what, pname) == [type |-> "ParamError", text |-> what, param |-> pname]

\* A caller-supplied value: one the parameter's type accepts, coercing to v,
\* or one it rejects (int('abc')).
Accepted(v) == [ok |-> TRUE, v |-> v]

Rejected == [ok |-> FALSE]

\* type(raw): int and float raise on a value they reject, bool never raises
Coerce(type, pname, raw) ==
    IF type = "bool"
    THEN Return(IF raw.ok THEN raw.v # 0 ELSE TRUE)
    ELSE IF raw.ok THEN Return(raw.v)
    ELSE Raise(ParamError("invalid type", pname))

\* the value of one parameter: the override, coerced and validated, else the
\* default
ResolveParam(def, overrides) ==
    IF def.name \in DOMAIN overrides
    THEN LET c == Coerce(def.type, def.name, overrides[def.name])
         IN  IF c.status = "raise" THEN c
             ELSE IF ~Validator(def.name, c.value)
             THEN Raise(ParamError("invalid value", def.name))
             ELSE c
    ELSE Return(def.default)

\* WithParams.__init__(**params): the parameter values, by name
WithParams_init(defs, overrides) ==
    LET names == {defs[i].name : i \in 1..Len(defs)}
        bad   == {i \in 1..Len(defs) :
                    ResolveParam(defs[i], overrides).status = "raise"}
    IN  IF \E k \in DOMAIN overrides : k \notin names
        THEN Raise(ParamError("unknown parameter",
                              CHOOSE k \in DOMAIN overrides : k \notin names))
        ELSE IF bad # {}
        THEN ResolveParam(defs[CHOOSE i \in bad : \A j \in bad : i <= j], overrides)
        ELSE Return([n \in names |->
                ResolveParam(defs[CHOOSE i \in 1..Len(defs) : defs[i].name = n],
                             overrides).value])

----------------------------------------------------------------------------
(* class Scorer *)

Unset == "<unset>"

\* the class Scorer itself, in module conseval.scorer; its _score raises
BaseScorer ==
    Class(<<"c","o","n","s","e","v","a","l",".","s","c","o","r","e","r">>,
          <<"S","c","o","r","e","r">>, FALSE)

\* Scorer.__init__(self, **params) on an instance of class cls
Scorer_init(cls, params) ==
    LET p == WithParams_init(ScorerParams, params)
    IN  IF p.status = "raise" THEN p
        ELSE Return([kind          |-> "scorer",
                     cls           |-> cls,
                     window_size   |-> p.value["window_size"],
                     window_lambda |-> p.value["window_lambda"],
                     normalize     |-> p.value["normalize"],
                     name          |-> join(<<".">>, Tail(split(cls.module, "."))),
                     output_id     |-> Unset,
                     output_dir    |-> Unset])

\* calling None raises TypeError
NotCallable == [type |-> "TypeError", text |-> "'NoneType' object is not callable"]

\* variant of get_scorer that swallows a construction error
get_scorer_swallowing(name, mod, params) ==
    LET c == get_scorer_cls(name, mod)
    IN  IF c.status = "raise" THEN c
        ELSE IF c.value = None THEN Raise(NotCallable)
        ELSE IF Scorer_init(c.value, params).status = "raise"
        THEN Scorer_init(c.value, <<>>)
        ELSE Scorer_init(c.value, params)

\* variant of get_scorer that wraps a construction error like a lookup error
get_scorer_wrapping(name, mod, params) ==
    LET c == get_scorer_cls(name, mod)
    IN  IF c.status = "raise" THEN c
        ELSE IF c.value = None THEN Raise(NotCallable)
        ELSE IF Scorer_init(c.value, params).status = "raise"
        THEN Raise(NotAValidScorer(Scorer_init(c.value, params).error.type, name))
        ELSE Scorer_init(c.value, params)

\* lines 11-18
get_scorer(name, mod, params) ==
    LET c == get_scorer_cls(name, mod)
    IN  IF c.status = "raise" THEN c
        ELSE IF c.value = None THEN Raise(NotCallable)
        ELSE Scorer_init(c.value, params)

----------------------------------------------------------------------------
(* Alignments and score sequences *)

\* An alignment is the sequence of its columns, each column abstracted to
\* the number a scoring algorithm derives from it.
Columns(n) == [i \in 1..n |-> i - 1]

Alignments == {Columns(n) : n \in 0..MaxCols} \cup {Columns(10)}

\* A score sequence: the raw per-column scores and the transforms applied
\* to them, in order of application.
Scores(raw) == [kind |-> "scores", raw |-> raw, ops |-> <<>>]

\* conseval.utils.general.window_scores(scores, window_size, window_lambda)
window_scores(scores, window_size, window_lambda) ==
    [scores EXCEPT !.ops = Append(@, [op |-> "window_scores",
                                      window_size |-> window_size,
                                      window_lambda |-> window_lambda])]

\* conseval.utils.general.norm_scores(scores, filter=f)
norm_scores(scores, f) ==
    [scores EXCEPT !.ops = Append(@, [op |-> "norm_scores", filter |-> f])]

\* the _score a scorer module's class supplies: one score per column
Subclass_score(self, alignment) == Return(Scores(alignment))

NotImplementedError == [type |-> "NotImplementedError"]

\* self._score(alignment): the subclass's override, else Scorer._score
\* (lines 98-108)
score_raw(self, alignment) ==
    IF self.cls.has_score
    THEN Subclass_score(self, alignment)
    ELSE Raise(NotImplementedError)

\* a finished call of score: its outcome, the functions it invoked in order,
\* and self and the alignment as the call leaves them
Done(out, invoked, self, alignment) ==
    [out |-> out, invoked |-> invoked, self |-> self, alignment |-> alignment]

\* variant of score that normalizes before it windows
score_norm_first(self, alignment) ==
    LET raw == score_raw(self, alignment)
    IN  IF raw.status = "raise"
        THEN Done(raw, <<"_score">>, self, alignment)
        ELSE
        LET normed   == IF self.normalize
                        THEN norm_scores(raw.value, 5)
                        ELSE raw.value
            windowed == IF self.window_size # 0
                        THEN window_scores(normed, self.window_size,
                                           self.window_lambda)
                        ELSE normed
        IN  Done(Return(windowed),
                 <<"_score">>
                   \o (IF self.normalize THEN <<"norm_scores">> ELSE <<>>)
                   \o (IF self.window_size # 0 THEN <<"window_scores">> ELSE <<>>),
                 self, alignment)

\* variant of score that windows whatever window_size is
score_always_window(self, alignment) ==
    LET raw == score_raw(self, alignment)
    IN  IF raw.status = "raise"
        THEN Done(raw, <<"_score">>, self, alignment)
        ELSE
        LET windowed == window_scores(raw.value, self.window_size,
                                      self.window_lambda)
            normed   == IF self.normalize
                        THEN norm_scores(windowed, 5)
                        ELSE windowed
        IN  Done(Return(normed),
                 <<"_score", "window_scores">>
                   \o (IF self.normalize THEN <<"norm_scores">> ELSE <<>>),
                 self, alignment)

\* variant of score that clears normalize on self once it has normalized
score_consuming(self, alignment) ==
    LET raw == score_raw(self, alignment)
    IN  IF raw.status = "raise"
        THEN Done(raw, <<"_score">>, self, alignment)
        ELSE
        LET windowed == IF self.window_size # 0
                        THEN window_scores(raw.value, self.window_size,
                                           self.window_lambda)
                        ELSE raw.value
            normed   == IF self.normalize
                        THEN norm_scores(windowed, 5)
                        ELSE windowed
        IN  Done(Return(normed),
                 <<"_score">>
                   \o (IF self.window_size # 0 THEN <<"window_scores">> ELSE <<>>)
                   \o (IF self.normalize THEN <<"norm_scores">> ELSE <<>>),
                 [self EXCEPT !.normalize = FALSE], alignment)

\* variant of score that answers an unimplemented _score with no scores
score_swallowing(self, alignment) ==
    LET raw == IF score_raw(self, alignment).status = "raise"
               THEN Return(Scores(<<>>))
               ELSE score_raw(self, alignment)
        windowed == IF self.window_size # 0
                    THEN window_scores(raw.value, self.window_size,
                                       self.window_lambda)
                    ELSE raw.value
        normed   == IF self.normalize
                    THEN norm_scores(windowed, 5)
                    ELSE windowed
    IN  Done(Return(normed),
             <<"_score">>
               \o (IF self.window_size # 0 THEN <<"window_scores">> ELSE <<>>)
               \o (IF self.normalize THEN <<"norm_scores">> ELSE <<>>),
             self, alignment)

\* Scorer.score(self, alignment), lines 84-95
score(self, alignment) ==
    LET raw == score_raw(self, alignment)
    IN  IF raw.status = "raise"
        THEN Done(raw, <<"_score">>, self, alignment)
        ELSE
        LET windowed == IF self.window_size # 0
                        THEN window_scores(raw.value, self.window_size,
                                           self.window_lambda)
                        ELSE raw.value
            normed   == IF self.normalize
                        THEN norm_scores(windowed, 5)
                        ELSE windowed
        IN  Done(Return(normed),
                 <<"_score">>
                   \o (IF self.window_size # 0 THEN <<"window_scores">> ELSE <<>>)
                   \o (IF self.normalize THEN <<"norm_scores">> ELSE <<>>),
                 self, alignment)

\* Scorer.set_output_id(self, output_id)
set_output_id(self, output_id) == [self EXCEPT !.output_id = output_id]

\* Scorer.set_output_dir(self, out_dir)
set_output_dir(self, out_dir) == [self EXCEPT !.output_dir = out_dir]

----------------------------------------------------------------------------
(* Inputs *)

NameChars == {"a", "B", "_", "."}

\* 'caprasingh07.js_divergence', the name of get_scorer_cls's docstring
ExampleName ==
    <<"c","a","p","r","a","s","i","n","g","h","0","7",".",
      "j","s","_","d","i","v","e","r","g","e","n","c","e">>

\* every non-empty name of at most MaxLen characters, and the example
Names == UNION {[1..k -> NameChars] : k \in 1..MaxLen} \cup {ExampleName}

\* the names the caller of get_scorer uses
SessionNames == {<<"a", ".", "B">>, <<"j", "s", "_", "d">>}

ParamKeys == {"window_size", "window_lambda", "normalize", "bogus"}

\* the values a caller may pass for a parameter
RawValues(pname) ==
    CASE pname = "window_size"   ->
            {Accepted(v) : v \in -1..MaxWin} \cup {Rejected}
      [] pname = "window_lambda" ->
            {Accepted(v) : v \in {-1, 0, 10, 11}} \cup {Rejected}
      [] pname = "normalize"     -> {Accepted(0), Accepted(1), Rejected}
      [] OTHER                   -> {Accepted(0)}

\* the keyword arguments **params: any subset of the keys, each with a value
Overrides ==
    UNION {{f \in [S -> UNION {RawValues(k) : k \in S}] :
                \A k \in S : f[k] \in RawValues(k)} : S \in SUBSET ParamKeys}

OutputIds == {"id1"}

OutputDirs == {"out"}

NothingSeen == [a \in Alignments |-> None]

----------------------------------------------------------------------------
(* A run of a caller: its first call resolves a name or acquires a scorer;  *)
(* with a scorer in hand it scores alignments and sets the output fields.  *)

\* the caller has made no call yet
AtStart == ret.op = "none"

Init ==
    /\ ret = [op |-> "none"]
    /\ scorer = None
    /\ seen = NothingSeen

\* get_scorer_cls(name)
GetScorerCls(name, mod) ==
    /\ AtStart
    /\ ret' = [op |-> "get_scorer_cls", name |-> name, mod |-> mod,
               res |-> get_scorer_cls(name, mod)]
    /\ UNCHANGED <<scorer, seen>>

\* scorer = get_scorer(name, **params)
GetScorer(name, mod, params) ==
    LET r == get_scorer(name, mod, params)
    IN  /\ AtStart
        /\ ret' = [op |-> "get_scorer", name |-> name, mod |-> mod,
                   params |-> params, res |-> r]
        /\ scorer' = IF r.status = "return" THEN r.value ELSE None
        /\ UNCHANGED seen

\* scorer = Scorer(**params): the base class instantiated directly
NewScorer(params) ==
    LET r == Scorer_init(BaseScorer, params)
    IN  /\ AtStart
        /\ ret' = [op |-> "Scorer", params |-> params, res |-> r]
        /\ scorer' = IF r.status = "return" THEN r.value ELSE None
        /\ UNCHANGED seen

\* scorer.score(alignment)
Score(alignment) ==
    /\ scorer # None
    /\ LET d == score(scorer, alignment)
       IN  /\ ret' = [op |-> "score", alignment |-> alignment,
                      res |-> d.out, invoked |-> d.invoked,
                      alignment_after |-> d.alignment,
                      repeat |-> seen[alignment] # None]
           /\ scorer' = d.self
           /\ seen' = IF d.out.status = "return" /\ seen[alignment] = None
                      THEN [seen EXCEPT ![alignment] = d.out.value]
                      ELSE seen

\* scorer.set_output_id(output_id)
SetOutputId(output_id) ==
    /\ scorer # None
    /\ scorer' = set_output_id(scorer, output_id)
    /\ ret' = [op |-> "set_output_id", res |-> Return(None)]
    /\ UNCHANGED seen

\* scorer.set_output_dir(out_dir)
SetOutputDir(out_dir) ==
    /\ scorer # None
    /\ scorer' = set_output_dir(scorer, out_dir)
    /\ ret' = [op |-> "set_output_dir", res |-> Return(None)]
    /\ UNCHANGED seen

ResolveAny ==
    /\ AtStart
    /\ \E name \in Names : \E mod \in Modules(name) : GetScorerCls(name, mod)

Acquire ==
    /\ AtStart
    /\ \E name \in SessionNames : \E mod \in Modules(name) :
          \E params \in Overrides : GetScorer(name, mod, params)

Construct ==
    /\ AtStart
    /\ \E params \in Overrides : NewScorer(params)

ScoreAny ==
    /\ scorer # None
    /\ \E alignment \in Alignments : Score(alignment)

SetId ==
    /\ scorer # None
    /\ \E output_id \in OutputIds : SetOutputId(output_id)

SetDir ==
    /\ scorer # None
    /\ \E out_dir \in OutputDirs : SetOutputDir(out_dir)

Next == Acquire \/ Construct \/ ScoreAny \/ SetId \/ SetDir

\* a caller acquiring scorers and scoring alignments with them
Spec == Init /\ [][Next]_vars

\* a caller resolving names to classes
ResolveSpec == Init /\ [][ResolveAny]_vars

----------------------------------------------------------------------------
(* Properties of resolution, checked under ResolveSpec *)

Resolved == ret.op = "get_scorer_cls"

\* the characters of name after its last dot
AfterLastDot(name) ==
    LET dots == {i \in 1..Len(name) : name[i] = "."}
    IN  IF dots = {} THEN name
        ELSE SubSeq(name, (CHOOSE i \in dots : \A j \in dots : j <= i) + 1,
                    Len(name))

\* a segment read left to right: underscores dropped, the character after
\* the start or an underscore upper-cased, every other one lower-cased
RECURSIVE CamelScan(_, _)
CamelScan(s, atStart) ==
    IF s = <<>> THEN <<>>
    ELSE IF Head(s) = "_" THEN CamelScan(Tail(s), TRUE)
    ELSE <<IF atStart THEN upper(Head(s)) ELSE lower(Head(s))>>
            \o CamelScan(Tail(s), FALSE)

ExpectedClsname(name) == CamelScan(AfterLastDot(name), TRUE)

Str_JsDivergence == <<"J","s","D","i","v","e","r","g","e","n","c","e">>

\* C1: when the module scorers.<name> loads and carries a true
\* IS_BASE_SCORER, get_scorer_cls(name) raises the 'not a valid scorer'
\* error; it does not return normally.
C1_AbstractMarkerRaises ==
    (Resolved /\ ret.mod.found /\ ret.mod.marker = "true")
        => (ret.res.status = "raise"
            /\ ret.res.error.text = "is not a valid scorer")

C4_ClassNameFromLastSegment ==
    (Resolved /\ ret.res.status = "return" /\ ret.res.value # None)
        => /\ ret.res.value.module = Str_scorers \o <<".">> \o ret.name
           /\ ret.res.value.clsname = ExpectedClsname(ret.name)
           /\ ret.res.value.clsname \in ret.mod.defines
           /\ (ret.name = ExampleName
                 => ret.res.value.clsname = Str_JsDivergence)

C4_Witness ==
    /\ Resolved /\ ret.name = ExampleName
    /\ ret.res.status = "return" /\ ret.res.value # None
    /\ ret.res.value.clsname = Str_JsDivergence

----------------------------------------------------------------------------
(* Properties of construction and scoring, checked under Spec *)

OwnParams == {"window_size", "window_lambda", "normalize"}

\* the override of key k is one its descriptor's validator rejects
ViolatesValidator(params, k) ==
    /\ k \in DOMAIN params
    /\ params[k].ok
    /\ \/ k = "window_size" /\ params[k].v < 0
       \/ k = "window_lambda" /\ (params[k].v < 0 \/ params[k].v > 10)

\* the override of key k names no parameter or is rejected by its type
Unusable(params, k) ==
    /\ k \in DOMAIN params
    /\ \/ k \notin OwnParams
       \/ k \in {"window_size", "window_lambda"} /\ ~params[k].ok

\* get_scorer found a module that is not marked abstract and defines the class
ResolvedToClass ==
    /\ ret.op = "get_scorer"
    /\ ret.mod.found
    /\ ret.mod.marker # "true"
    /\ ExpectedClsname(ret.name) \in ret.mod.defines

\* the last call constructed, or tried to construct, a scorer of a class
Constructing == ResolvedToClass \/ ret.op = "Scorer"

ConstructionFails ==
    \E k \in DOMAIN ret.params :
        ViolatesValidator(ret.params, k) \/ Unusable(ret.params, k)

\* C2 as claimed: when the name resolves to a class and constructing it
\* fails, get_scorer raises the 'not a valid scorer' error wrapping the
\* construction error.
C2_ConstructionFailureWrapped ==
    (ResolvedToClass /\ ConstructionFails)
        => (ret.res.status = "raise"
            /\ ret.res.error.type = "ImportError"
            /\ ret.res.error.text = "is not a valid scorer")

\* C2 as amended: when the name resolves to a class and constructing it
\* fails, get_scorer raises the construction error itself, a parameter
\* error, unwrapped, and the caller gets no instance.
C2_ConstructionFailurePropagates ==
    (ResolvedToClass /\ ConstructionFails)
        => (/\ ret.res.status = "raise"
            /\ ret.res.error.type = "ParamError"
            /\ ret.res.error.text \in
                 {"unknown parameter", "invalid type", "invalid value"}
            /\ ret.res.error.param \in DOMAIN ret.params
            /\ scorer = None)

C2_Witness ==
    /\ ResolvedToClass
    /\ Unusable(ret.params, "window_size")
    /\ ret.res.status = "raise"

\* C7: when an override violates its descriptor's validator (window_size < 0,
\* window_lambda outside [0,1]), construction raises a parameter error, the
\* caller gets no instance, and nothing can be scored: _score is not invoked.
C7_InvalidValueFailsConstruction ==
    (Constructing /\ \E k \in OwnParams : ViolatesValidator(ret.params, k))
        => (/\ ret.res.status = "raise"
            /\ ret.res.error.type = "ParamError"
            /\ (~(\E k \in DOMAIN ret.params : Unusable(ret.params, k))
                  => /\ ret.res.error.text = "invalid value"
                     /\ ViolatesValidator(ret.params, ret.res.error.param))
            /\ scorer = None
            /\ seen = NothingSeen
            /\ ~ENABLED ScoreAny)

C7_Witness ==
    /\ ResolvedToClass
    /\ DOMAIN ret.params = {"window_size"}
    /\ ret.params["window_size"] = Accepted(-1)
    /\ ret.res.status = "raise"
    /\ scorer = None

Scored == ret.op = "score"

\* how often function f was invoked by the last score call
Invocations(f) ==
    Cardinality({i \in 1..Len(ret.invoked) : ret.invoked[i] = f})

\* the transforms score is to apply for the scorer's parameters, in order
ExpectedOps ==
    (IF scorer.window_size > 0
     THEN <<[op |-> "window_scores", window_size |-> scorer.window_size,
             window_lambda |-> scorer.window_lambda]>>
     ELSE <<>>)
    \o (IF scorer.normalize
        THEN <<[op |-> "norm_scores", filter |-> 5]>>
        ELSE <<>>)

\* C5: every score call invokes _score exactly once and first; when it
\* returns, windowing is applied to the raw sequence iff window_size > 0,
\* then normalization with filter 5 to the result iff normalize, never the
\* other way round, and the call returns the output of the last step.
C5_FixedOrder ==
    Scored =>
        /\ ret.invoked[1] = "_score"
        /\ Invocations("_score") = 1
        /\ ret.res.status = "return" =>
             /\ ret.invoked =
                  <<"_score">>
                    \o (IF scorer.window_size > 0
                        THEN <<"window_scores">> ELSE <<>>)
                    \o (IF scorer.normalize THEN <<"norm_scores">> ELSE <<>>)
             /\ ret.res.value.raw = ret.alignment
             /\ ret.res.value.ops = ExpectedOps

C5_Witness ==
    /\ Scored /\ ret.res.status = "return"
    /\ ret.invoked = <<"_score", "window_scores", "norm_scores">>
    /\ Len(ret.res.value.ops) = 2

\* C6: with window_size 0 and normalize false, for any window_lambda, score
\* returns exactly the raw sequence _score produced (raw [0..9] gives [0..9]).
C6_WindowingIdentity ==
    (Scored /\ scorer.cls.has_score
       /\ scorer.window_size = 0 /\ ~scorer.normalize)
        => (/\ ret.res = Return(Scores(ret.alignment))
            /\ ret.invoked = <<"_score">>
            /\ (ret.alignment = <<0, 1, 2, 3, 4, 5, 6, 7, 8, 9>>
                  => /\ ret.res.value.raw = <<0, 1, 2, 3, 4, 5, 6, 7, 8, 9>>
                     /\ ret.res.value.ops = <<>>))

C6_Witness ==
    /\ Scored /\ scorer.cls.has_score
    /\ scorer.window_size = 0 /\ ~scorer.normalize
    /\ scorer.window_lambda = 10
    /\ ret.alignment = <<0, 1, 2, 3, 4, 5, 6, 7, 8, 9>>
    /\ ret.res.status = "return"

SameParams(s, t) ==
    /\ s.window_size = t.window_size
    /\ s.window_lambda = t.window_lambda
    /\ s.normalize = t.normalize

\* C9: every score call on an alignment returns what the scorer's first
\* score call on that alignment returned, whatever score, set_output_id and
\* set_output_dir calls came between; score leaves the alignment and every
\* parameter value of the scorer as they were.
C9_Idempotent ==
    /\ []((Scored /\ ret.res.status = "return")
            => /\ ret.res.value = seen[ret.alignment]
               /\ ret.alignment_after = ret.alignment)
    /\ [][(scorer # None /\ ret'.op = "score") => SameParams(scorer', scorer)]_vars

C9_Witness ==
    /\ Scored /\ ret.repeat /\ ret.res.status = "return"
    /\ scorer.output_id # Unset /\ scorer.output_dir # Unset
    /\ scorer.normalize /\ scorer.window_size > 0
    /\ Cardinality({a \in Alignments : seen[a] # None}) > 1

\* C10: score on a scorer whose class supplies no _score raises
\* NotImplementedError to the caller: _score is invoked once, neither
\* windowing nor normalization is applied, and no scores are returned,
\* whatever the parameters.
C10_UnimplementedRaises ==
    (Scored /\ ~scorer.cls.has_score)
        => (/\ ret.res = Raise([type |-> "NotImplementedError"])
            /\ ret.invoked = <<"_score">>
            /\ seen = NothingSeen)

C10_Witness ==
    /\ Scored /\ scorer.cls = BaseScorer
    /\ scorer.window_size > 0 /\ scorer.normalize
    /\ ret.res.status = "raise"

====
